---- MODULE Spec2Model ----
(***************************************************************************)
(* Model of upload_pbo.cpp: the test programs test_2, test_4 and test_5    *)
(* as sequences of the calls they make, run against a model of the state   *)
(* those calls act on (pixel buffer objects, textures, the bindings, the   *)
(* CPU arrays and the pointers obtained from mapping), and the pure        *)
(* computations of the file (the planar split, the BGRA repacking, the     *)
(* aspect-ratio transform).                                                 *)
(*                                                                         *)
(* Timing, printing, sleep_for, glFlush/glFinish, glEnable and             *)
(* glTexParameteri change nothing that is modelled and are left out.       *)
(***************************************************************************)
EXTENDS Integers, Sequences, FiniteSets, TLC

VARIABLES
  test,      \* the test main() dispatches to (atoi(argcv[1]))
  pc,        \* index of the next call of the test's call sequence
  status,    \* "running", "done", "crashed" (a fault) or "exited" (exit(2))
  pbo,       \* buffer objects: name -> [gen, size, mapped, store, written]
  unpack,    \* the buffer bound to GL_PIXEL_UNPACK_BUFFER ("0": none)
  tex,       \* textures: name -> [gen, w, h, internal_format, format, type,
             \* image, copies, source (the buffer of the last copy into it)]
  unit,      \* the active texture unit
  bound2d,   \* per texture unit, the texture bound to GL_TEXTURE_2D ("0": none)
  ptr,       \* the GLubyte* variables set by glMapBuffer
  released,  \* the pointer variables whose mapping has been released
  mem,       \* contents of the CPU arrays
  heap,      \* their allocated sizes (new GLubyte[n]; 0: not allocated)
  rd,        \* the call of readbytes: [called, opened, size, expected]
  ctx,       \* the OpenGLContext object's fields, the drawable that is current
             \* and the windows glXMakeCurrent was called with
  glew,      \* the extension loader: [init, pbo_ext, pbo]
  shader,    \* the Shader object: program state, locations, uniform values
  fb,        \* the window's framebuffer: viewport, what was drawn and shown
  glerr,     \* number of GL errors raised
  last,      \* the call executed last, with what it saw
  render,    \* the calls of the render functions: [active, n, ok, steps, ...]
  frame      \* a frame taken byte by byte through the split and the repacking

bufvars == <<pbo, unpack, ptr, released>>
texvars == <<tex, unit, bound2d>>
cpuvars == <<mem, heap, rd>>
ctxvars == <<ctx, glew, shader, fb>>

(***************************************************************************)
(* Contents of a memory region: the bytes [off, off+len) of the raw frame  *)
(* file ("file"), zeros ("zero"), the BGRA block repacked from the three   *)
(* planes ("block"), or nothing defined ("none": uninitialised memory or a *)
(* data store reserved without data).  len counts the defined bytes from   *)
(* the start of the region.                                                *)
(***************************************************************************)
Nothing == [src |-> "none", off |-> 0, len |-> 0]

Min(a, b) == IF a < b THEN a ELSE b

\* the first n bytes at offset o of a region holding c
Slice(c, o, n) ==
  IF c.src \in {"file", "zero", "block"} /\ o < c.len
    THEN [src |-> c.src, off |-> c.off + o, len |-> Min(n, c.len - o)]
    ELSE Nothing

(***************************************************************************)
(* The names the tests give to their objects.                              *)
(***************************************************************************)
Buffers  == {"pbo_index", "y_pbo", "u_pbo", "v_pbo", "pbo"}
Textures == {"tex_index", "y_tex", "u_tex", "v_tex", "tex"}
Pointers == {"payload", "y_payload", "u_payload", "v_payload"}
Arrays   == {"image", "y_image", "u_image", "v_image", "dummypayload"}

NoBuffer  == [gen |-> FALSE, size |-> 0, mapped |-> FALSE, store |-> Nothing,
              written |-> FALSE]
NoTexture == [gen |-> FALSE, w |-> 0, h |-> 0, internal_format |-> "none",
              format |-> "none", type |-> "none", image |-> Nothing, copies |-> 0,
              source |-> "0"]

\* bytes per pixel of a transfer format and type
BytesPerPixel(format, type) ==
  CASE format = "GL_RED"  /\ type = "GL_UNSIGNED_BYTE"            -> 1
    [] format = "GL_RGBA" /\ type = "GL_UNSIGNED_BYTE"            -> 4
    [] format = "GL_BGRA" /\ type = "GL_UNSIGNED_INT_8_8_8_8_REV" -> 4

RECURSIVE Loop(_, _)
\* for(i=0;i<n;i++) { body }
Loop(n, body) == IF n = 0 THEN <<>> ELSE body \o Loop(n - 1, body)

\* getPBO without its glUnmapBuffer
getPBO_noUnmap(index, size, payload) ==
  << [op |-> "glGenBuffers",  buf |-> index],
     [op |-> "glBindBuffer",  buf |-> index],
     [op |-> "glBufferData",  size |-> size],
     [op |-> "glBindBuffer",  buf |-> "0"],
     [op |-> "glBindBuffer",  buf |-> index],
     [op |-> "glMapBuffer",   ptr |-> payload],
     [op |-> "glBindBuffer",  buf |-> "0"] >>

(***************************************************************************)
(* getPBO (lines 234-248): the calls it makes, on the caller's variables   *)
(* index and payload.                                                      *)
(***************************************************************************)
getPBO(index, size, payload) ==
  << [op |-> "glGenBuffers",  buf |-> index],
     [op |-> "glBindBuffer",  buf |-> index],
     [op |-> "glBufferData",  size |-> size],
     [op |-> "glBindBuffer",  buf |-> "0"],
     [op |-> "glBindBuffer",  buf |-> index],
     [op |-> "glMapBuffer",   ptr |-> payload],
     [op |-> "glUnmapBuffer"],
     [op |-> "glBindBuffer",  buf |-> "0"] >>

(***************************************************************************)
(* The methods of OpenGLContext and the shader constructors, as the calls  *)
(* they make.                                                              *)
(***************************************************************************)
\* ctx.makeCurrent(window_id) (lines 641-643): the result is not looked at
ctx_makeCurrent(window_id) ==
  << [op |-> "glXMakeCurrent", window |-> window_id, checked |-> FALSE] >>

\* ctx.loadExtensions() (lines 646-677)
ctx_loadExtensions ==
  << [op |-> "loadExtensions", skip |-> 2] >>
    \o ctx_makeCurrent("root_id")
    \o << [op |-> "glewInit"] >>

\* the first statements without ctx.makeCurrent(win)
Startup_noMakeCurrent ==
  << [op |-> "OpenGLContext"] >>
    \o ctx_loadExtensions
    \o << [op |-> "createWindow"] >>

\* OpenGLContext ctx = OpenGLContext(); ctx.loadExtensions();
\* win=ctx.createWindow(); ctx.makeCurrent(win);
\* (lines 930-934, 1129-1133, 1272-1276)
Startup ==
  << [op |-> "OpenGLContext"] >>
    \o ctx_loadExtensions
    \o << [op |-> "createWindow"] >>
    \o ctx_makeCurrent("win")

\* new YUVShader() / new YUVBlockShader() (lines 369-373, 480-484)
new_Shader(kind) ==
  << [op |-> "compile", kind |-> kind],
     [op |-> "glUseProgram"],
     [op |-> "findVars"] >>

\* lines 762-775, 841-854
renderHead(window_id) ==
  << [op |-> "glXMakeCurrent", window |-> window_id, checked |-> TRUE],
     [op |-> "XGetWindowAttributes"],
     [op |-> "glViewport"],
     [op |-> "glClear"],
     [op |-> "glUseProgram"] >>

\* renderTail with the draw made before the transform is uploaded
renderTail_drawFirst ==
  << [op |-> "computeTransform"],
     [op |-> "glBindVertexArray", vao |-> "VAO"],
     [op |-> "glDrawElements"],
     [op |-> "glBindVertexArray", vao |-> "0"],
     [op |-> "glUniformMatrix4fv"],
     [op |-> "glXSwapBuffers"] >>

\* lines 789-830, 862-903
renderTail ==
  << [op |-> "computeTransform"],
     [op |-> "glUniformMatrix4fv"],
     [op |-> "glBindVertexArray", vao |-> "VAO"],
     [op |-> "glDrawElements"],
     [op |-> "glBindVertexArray", vao |-> "0"],
     [op |-> "glXSwapBuffers"] >>

\* renderYUVShader with the u and v textures on each other's unit
renderYUVShader_crossed(window_id, y_index, u_index, v_index) ==
  renderHead(window_id)
    \o << [op |-> "glActiveTexture", unit |-> 0],
          [op |-> "glBindTexture",   tex |-> y_index],
          [op |-> "glUniform1i",     name |-> "texy", value |-> 0],
          [op |-> "glActiveTexture", unit |-> 1],
          [op |-> "glBindTexture",   tex |-> v_index],
          [op |-> "glUniform1i",     name |-> "texu", value |-> 1],
          [op |-> "glActiveTexture", unit |-> 2],
          [op |-> "glBindTexture",   tex |-> u_index],
          [op |-> "glUniform1i",     name |-> "texv", value |-> 2] >>
    \o renderTail

\* ctx.renderYUVShader(window_id, shader, y_index, u_index, v_index)
\* (lines 758-834)
renderYUVShader(window_id, y_index, u_index, v_index) ==
  renderHead(window_id)
    \o << [op |-> "glActiveTexture", unit |-> 0],
          [op |-> "glBindTexture",   tex |-> y_index],
          [op |-> "glUniform1i",     name |-> "texy", value |-> 0],
          [op |-> "glActiveTexture", unit |-> 1],
          [op |-> "glBindTexture",   tex |-> u_index],
          [op |-> "glUniform1i",     name |-> "texu", value |-> 1],
          [op |-> "glActiveTexture", unit |-> 2],
          [op |-> "glBindTexture",   tex |-> v_index],
          [op |-> "glUniform1i",     name |-> "texv", value |-> 2] >>
    \o renderTail

\* ctx.renderYUVBlockShader(window_id, shader, tex_index) (lines 837-907)
renderYUVBlockShader(window_id, tex_index) ==
  renderHead(window_id)
    \o << [op |-> "glActiveTexture", unit |-> 0],
          [op |-> "glBindTexture",   tex |-> tex_index],
          [op |-> "glUniform1i",     name |-> "texBlock", value |-> 0] >>
    \o renderTail

(***************************************************************************)
(* test_2 (lines 922-1032): one PBO of w*h bytes, one RGBA8 texture, ten   *)
(* memsets through payload, ten copies from the PBO to the texture.        *)
(***************************************************************************)
test_2 ==
  LET format          == "GL_RGBA"
      internal_format == "GL_RGBA8"
      w    == 1920
      h    == 1080
      size == w * h
  IN  Startup
      \o << [op |-> "glGenBuffers",  buf |-> "pbo_index"],
            [op |-> "glBindBuffer",  buf |-> "pbo_index"],
            [op |-> "glBufferData",  size |-> size],
            [op |-> "glBindBuffer",  buf |-> "0"],
            [op |-> "glBindBuffer",  buf |-> "pbo_index"],
            [op |-> "glMapBuffer",   ptr |-> "payload"],
            [op |-> "glUnmapBuffer"],
            [op |-> "glBindBuffer",  buf |-> "0"],
            [op |-> "glGenTextures", tex |-> "tex_index"],
            [op |-> "glBindTexture", tex |-> "tex_index"],
            [op |-> "glTexImage2D",  internal_format |-> internal_format,
               w |-> w, h |-> h, format |-> format, type |-> "GL_UNSIGNED_BYTE"],
            [op |-> "glBindTexture", tex |-> "0"] >>
      \o Loop(10, << [op |-> "memset", dst |-> "payload", n |-> size] >>)
      \o Loop(10,
           << [op |-> "glBindBuffer",    buf |-> "pbo_index"],
              [op |-> "glBindTexture",   tex |-> "tex_index"],
              [op |-> "glTexSubImage2D", w |-> w, h |-> h,
                 format |-> format, type |-> "GL_UNSIGNED_BYTE"],
              [op |-> "glBindTexture",   tex |-> "0"] >>)

(***************************************************************************)
(* Lines 1148-1162 and 1293-1307, the same in test_4 and test_5: the frame *)
(* is read from 1.yuv into image and split into its three planes.          *)
(***************************************************************************)
\* the v plane taken from where the u plane lies
PlaneRegion_overlap(size) ==
  [y |-> [off |-> 0,    len |-> size],
   u |-> [off |-> size, len |-> size \div 4],
   v |-> [off |-> size, len |-> size \div 4]]

\* where each plane lies in the raw frame (lines 1160-1162, 1305-1307)
PlaneRegion(size) ==
  [y |-> [off |-> 0,                 len |-> size],
   u |-> [off |-> size,              len |-> size \div 4],
   v |-> [off |-> (5 * size) \div 4, len |-> size \div 4]]

loadPlanes(size, yuvsize) ==
  << [op |-> "new_GLubyte", arr |-> "image",   n |-> yuvsize],
     [op |-> "new_GLubyte", arr |-> "y_image", n |-> size],
     [op |-> "new_GLubyte", arr |-> "u_image", n |-> size \div 4],
     [op |-> "new_GLubyte", arr |-> "v_image", n |-> size \div 4],
     [op |-> "readbytes", buffer |-> "image", expected |-> yuvsize],
     [op |-> "memcpy", dst |-> "y_image", src |-> "image",
        off |-> PlaneRegion(size).y.off, n |-> PlaneRegion(size).y.len],
     [op |-> "memcpy", dst |-> "u_image", src |-> "image",
        off |-> PlaneRegion(size).u.off, n |-> PlaneRegion(size).u.len],
     [op |-> "memcpy", dst |-> "v_image", src |-> "image",
        off |-> PlaneRegion(size).v.off, n |-> PlaneRegion(size).v.len] >>

\* glGenTextures .. glTexImage2D for one texture (lines 1173-1177, 1179-1183,
\* 1185-1189, 1323-1327)
createTexture(t, internal_format, w, h, format, type) ==
  << [op |-> "glGenTextures", tex |-> t],
     [op |-> "glBindTexture", tex |-> t],
     [op |-> "glTexImage2D",  internal_format |-> internal_format,
        w |-> w, h |-> h, format |-> format, type |-> type] >>

\* one plane's copy from its PBO to its texture (lines 1210-1213, 1216-1219,
\* 1222-1225, 1393-1396)
copyPlane(b, t, w, h, format, type) ==
  << [op |-> "glBindBuffer",    buf |-> b],
     [op |-> "glBindTexture",   tex |-> t],
     [op |-> "glTexSubImage2D", w |-> w, h |-> h, format |-> format, type |-> type],
     [op |-> "glBindTexture",   tex |-> "0"] >>

\* the end of an upload iteration with the buffer left bound
unbindAll_textureOnly ==
  << [op |-> "glBindTexture", tex |-> "0"] >>

\* lines 1227-1228, 1398-1399
unbindAll ==
  << [op |-> "glBindBuffer",  buf |-> "0"],
     [op |-> "glBindTexture", tex |-> "0"] >>

(***************************************************************************)
(* test_4 (lines 1112-1242): three GL_RED planes, each with its PBO and    *)
(* its texture, drawn with the YUVShader.                                  *)
(***************************************************************************)
\* the upload loop without the copy of the v plane
test_4_upload_noV(w, h, format) ==
  Loop(10,
    copyPlane("y_pbo", "y_tex", w, h, format, "GL_UNSIGNED_BYTE")
      \o copyPlane("u_pbo", "u_tex", w \div 2, h \div 2, format, "GL_UNSIGNED_BYTE")
      \o unbindAll)

\* lines 1206-1236: the upload loop
test_4_upload(w, h, format) ==
  Loop(10,
    copyPlane("y_pbo", "y_tex", w, h, format, "GL_UNSIGNED_BYTE")
      \o copyPlane("u_pbo", "u_tex", w \div 2, h \div 2, format, "GL_UNSIGNED_BYTE")
      \o copyPlane("v_pbo", "v_tex", w \div 2, h \div 2, format, "GL_UNSIGNED_BYTE")
      \o unbindAll)

test_4 ==
  LET format          == "GL_RED"
      internal_format == "GL_RED"
      w       == 1280
      h       == 720
      size    == w * h
      yuvsize == (3 * size) \div 2
  IN  Startup
      \o new_Shader("YUVShader")
      \o << [op |-> "reserve"] >>
      \o loadPlanes(size, yuvsize)
      \o getPBO("y_pbo", size, "y_payload")
      \o getPBO("u_pbo", size \div 4, "u_payload")
      \o getPBO("v_pbo", size \div 4, "v_payload")
      \o createTexture("y_tex", internal_format, w, h, format, "GL_UNSIGNED_BYTE")
      \o createTexture("u_tex", internal_format, w \div 2, h \div 2, format,
                       "GL_UNSIGNED_BYTE")
      \o createTexture("v_tex", internal_format, w \div 2, h \div 2, format,
                       "GL_UNSIGNED_BYTE")
      \o << [op |-> "glBindTexture", tex |-> "0"],
            [op |-> "memcpy", dst |-> "y_payload", src |-> "y_image", off |-> 0,
               n |-> size],
            [op |-> "memcpy", dst |-> "u_payload", src |-> "u_image", off |-> 0,
               n |-> size \div 4],
            [op |-> "memcpy", dst |-> "v_payload", src |-> "v_image", off |-> 0,
               n |-> size \div 4] >>
      \o test_4_upload(w, h, format)
      \o renderYUVShader("win", "y_tex", "u_tex", "v_tex")

(***************************************************************************)
(* test_5 (lines 1245-1413): the planes repacked into one BGRA block, one  *)
(* PBO, one RGBA8 texture, drawn with the YUVBlockShader.                  *)
(***************************************************************************)
\* the upload loop with the texture's storage made anew in every iteration
test_5_upload_realloc(w, h, format, byteformat) ==
  Loop(10,
    << [op |-> "glBindBuffer",    buf |-> "pbo"],
       [op |-> "glBindTexture",   tex |-> "tex"],
       [op |-> "glTexImage2D",    internal_format |-> "GL_RGBA8",
          w |-> w, h |-> h, format |-> format, type |-> byteformat],
       [op |-> "glTexSubImage2D", w |-> w, h |-> h, format |-> format,
          type |-> byteformat],
       [op |-> "glBindTexture",   tex |-> "0"] >>
      \o unbindAll)

\* lines 1391-1407: the upload loop
test_5_upload(w, h, format, byteformat) ==
  Loop(10, copyPlane("pbo", "tex", w, h, format, byteformat) \o unbindAll)

test_5 ==
  LET format          == "GL_BGRA"
      internal_format == "GL_RGBA8"
      byteformat      == "GL_UNSIGNED_INT_8_8_8_8_REV"
      w          == 1280
      h          == 720
      size       == w * h
      yuvsize    == (3 * size) \div 2
      stridesize == w * 4
      texsize    == size * 4
  IN  Startup
      \o new_Shader("YUVBlockShader")
      \o << [op |-> "reserve"] >>
      \o loadPlanes(size, yuvsize)
      \o getPBO("pbo", texsize, "payload")
      \o << [op |-> "new_GLubyte", arr |-> "dummypayload", n |-> texsize] >>
      \o createTexture("tex", internal_format, w, h, format, byteformat)
      \o << [op |-> "glBindTexture", tex |-> "0"],
            [op |-> "repack", w |-> w, h |-> h, stridesize |-> stridesize],
            [op |-> "memcpy", dst |-> "payload", src |-> "dummypayload", off |-> 0,
               n |-> texsize] >>
      \o test_5_upload(w, h, format, byteformat)
      \o renderYUVBlockShader("win", "tex")

\* main (lines 1417-1444): the test chosen by the argument
Tests == {2, 4, 5}

\* test_4 and test_5 with their render call made a second time
renderAgain_4 == test_4 \o renderYUVShader("win", "y_tex", "u_tex", "v_tex")
renderAgain_5 == test_5 \o renderYUVBlockShader("win", "tex")

\* 14 and 15 stand for test_4 and test_5 followed by the second render call
Prog ==
  CASE test = 2 -> test_2
    [] test = 4 -> test_4
    [] test = 5 -> test_5
    [] test = 14 -> renderAgain_4
    [] test = 15 -> renderAgain_5

Cur == Prog[pc]

\* the calls that go through entry points glewInit loads (null before it, and
\* after it failed); the others are linked from the GL library
GlewCalls ==
  {"glGenBuffers", "glBindBuffer", "glBufferData", "glMapBuffer", "glUnmapBuffer",
   "glActiveTexture", "compile", "glUseProgram", "findVars", "glUniform1i",
   "glUniformMatrix4fv", "reserve", "glBindVertexArray"}

At(op) ==
  /\ status = "running"
  /\ pc <= Len(Prog)
  /\ Cur.op = op
  /\ op \in GlewCalls => glew.init = "ok"

\* the call returns: on to the next one, or the test returns
Return ==
  /\ pc' = pc + 1
  /\ status' = IF pc + 1 > Len(Prog) THEN "done" ELSE "running"

\* the call faults (a write or a read through a null or dangling pointer)
Fault ==
  /\ pc' = pc
  /\ status' = "crashed"

(***************************************************************************)
(* The record of the calls of renderYUVShader and renderYUVBlockShader:    *)
(* whether one is running, how many were begun, what its glXMakeCurrent    *)
(* returned, the steps it has made so far, the textures and buffers as     *)
(* they were when it began, and per call the window size read and the      *)
(* draw issued.                                                            *)
(***************************************************************************)
NoRender ==
  [active |-> FALSE, n |-> 0, ok |-> TRUE, steps |-> <<>>,
   before |-> [tex |-> [t \in Textures |-> NoTexture],
               pbo |-> [b \in Buffers |-> NoBuffer], unpack |-> "0"],
   sizes |-> <<>>, draws |-> <<>>]

\* a step of the render function that is running, if one is
Log(step) ==
  render' = IF render.active THEN [render EXCEPT !.steps = Append(@, step)]
                             ELSE render

(***************************************************************************)
(* Buffer objects.                                                         *)
(***************************************************************************)
glGenBuffers ==
  /\ At("glGenBuffers")
  /\ pbo' = [pbo EXCEPT ![Cur.buf] = [NoBuffer EXCEPT !.gen = TRUE]]
  /\ last' = Cur
  /\ Return
  /\ UNCHANGED <<frame, render, test, unpack, ptr, released, texvars, cpuvars, ctxvars, glerr>>

\* glBindBuffer(GL_PIXEL_UNPACK_BUFFER, buf); an invalid enum where pixel
\* buffer objects are not supported
glBindBuffer ==
  /\ At("glBindBuffer")
  /\ IF glew.pbo
       THEN unpack' = Cur.buf /\ UNCHANGED glerr
       ELSE glerr' = glerr + 1 /\ UNCHANGED unpack
  /\ last' = Cur
  /\ Return
  /\ UNCHANGED <<frame, render, test, pbo, ptr, released, texvars, cpuvars, ctxvars>>

\* glBufferData(GL_PIXEL_UNPACK_BUFFER, size, 0, GL_STREAM_DRAW): a new data
\* store of size bytes with nothing in it; a mapping of the old store ends.
glBufferData ==
  /\ At("glBufferData")
  /\ IF unpack = "0"
       THEN /\ glerr' = glerr + 1
            /\ UNCHANGED <<pbo, released>>
       ELSE /\ pbo' = [pbo EXCEPT ![unpack] =
                         [@ EXCEPT !.size = Cur.size, !.mapped = FALSE, !.store = Nothing,
                                   !.written = FALSE]]
            /\ released' = IF pbo[unpack].mapped
                             THEN released \cup {p \in Pointers : ptr[p] = unpack}
                             ELSE released
            /\ UNCHANGED glerr
  /\ last' = Cur
  /\ Return
  /\ UNCHANGED <<frame, render, test, unpack, ptr, texvars, cpuvars, ctxvars>>

\* payload = glMapBuffer(GL_PIXEL_UNPACK_BUFFER, GL_WRITE_ONLY): the address of
\* the bound buffer's store, or NULL with an error (no buffer bound, no store,
\* already mapped, or the mapping cannot be made).
glMapBuffer ==
  /\ At("glMapBuffer")
  /\ \E mapped \in BOOLEAN :
       /\ mapped => (unpack # "0" /\ pbo[unpack].size > 0 /\ ~pbo[unpack].mapped)
       /\ IF mapped
            THEN /\ pbo' = [pbo EXCEPT ![unpack].mapped = TRUE]
                 /\ ptr' = [ptr EXCEPT ![Cur.ptr] = unpack]
                 /\ UNCHANGED glerr
            ELSE /\ ptr' = [ptr EXCEPT ![Cur.ptr] = "NULL"]
                 /\ glerr' = glerr + 1
                 /\ UNCHANGED pbo
       /\ released' = released \ {Cur.ptr}
       /\ last' = [op |-> "glMapBuffer", ptr |-> Cur.ptr, mapped |-> mapped,
                   was_mapped |-> (unpack # "0" /\ pbo[unpack].mapped)]
  /\ Return
  /\ UNCHANGED <<frame, render, test, unpack, texvars, cpuvars, ctxvars>>

\* glUnmapBuffer(GL_PIXEL_UNPACK_BUFFER): the mapping is released, and the
\* pointers into it dangle.
glUnmapBuffer ==
  /\ At("glUnmapBuffer")
  /\ IF unpack # "0" /\ pbo[unpack].mapped
       THEN /\ pbo' = [pbo EXCEPT ![unpack].mapped = FALSE]
            /\ released' = released \cup {p \in Pointers : ptr[p] = unpack}
            /\ UNCHANGED glerr
       ELSE /\ glerr' = glerr + 1
            /\ UNCHANGED <<pbo, released>>
  /\ last' = Cur
  /\ Return
  /\ UNCHANGED <<frame, render, test, unpack, ptr, texvars, cpuvars, ctxvars>>

(***************************************************************************)
(* CPU writes: memcpy(dst, &src[off], n) and memset(dst, 0, n).  dst is a  *)
(* CPU array or a pointer obtained from glMapBuffer.  A write through a    *)
(* pointer whose mapping has been released is undefined: the bytes may     *)
(* land in the buffer's store, may be lost, or the write may fault.        *)
(***************************************************************************)
Store(dst, c) ==
  IF dst \in Arrays
    THEN /\ mem' = [mem EXCEPT ![dst] = c]
         /\ last' = [op |-> Cur.op, dst |-> dst, buf |-> "none",
                     mapped |-> FALSE, stale |-> FALSE, n |-> Cur.n]
         /\ Return
         /\ UNCHANGED pbo
    ELSE /\ last' = [op |-> Cur.op, dst |-> dst, buf |-> ptr[dst],
                     mapped |-> (ptr[dst] \in Buffers /\ pbo[ptr[dst]].mapped),
                     stale  |-> (dst \in released), n |-> Cur.n]
         /\ UNCHANGED mem
         /\ IF ptr[dst] \notin Buffers
              THEN Fault /\ UNCHANGED pbo
              ELSE IF pbo[ptr[dst]].mapped
                THEN /\ pbo' = [pbo EXCEPT ![ptr[dst]].store = c,
                                            ![ptr[dst]].written = TRUE]
                     /\ Return
                ELSE \/ /\ pbo' = [pbo EXCEPT ![ptr[dst]].store = c,
                                            ![ptr[dst]].written = TRUE]
                        /\ Return
                     \/ /\ UNCHANGED pbo
                        /\ Return
                     \/ /\ UNCHANGED pbo
                        /\ Fault

memcpy ==
  /\ At("memcpy")
  /\ Store(Cur.dst, Slice(mem[Cur.src], Cur.off, Cur.n))
  /\ UNCHANGED <<frame, render, test, unpack, ptr, released, texvars, heap, rd, ctxvars, glerr>>

memset ==
  /\ At("memset")
  /\ Store(Cur.dst, [src |-> "zero", off |-> 0, len |-> Cur.n])
  /\ UNCHANGED <<frame, render, test, unpack, ptr, released, texvars, heap, rd, ctxvars, glerr>>

\* image = new GLubyte[n]: n bytes, none of them initialised
new_GLubyte ==
  /\ At("new_GLubyte")
  /\ heap' = [heap EXCEPT ![Cur.arr] = Cur.n]
  /\ mem' = [mem EXCEPT ![Cur.arr] = Nothing]
  /\ last' = Cur
  /\ Return
  /\ UNCHANGED <<frame, render, test, bufvars, texvars, rd, ctxvars, glerr>>

(***************************************************************************)
(* readbytes (lines 217-231): the whole file is read into buffer, whatever *)
(* its size and the buffer's.  A file that cannot be opened gives size =   *)
(* (uint)-1 (written -1 here) and reads nothing; a file longer than the    *)
(* buffer is written past its end, which is undefined: the call may fault  *)
(* or return.                                                              *)
(***************************************************************************)
ShortFile == 100

FileSizes(expected) == {ShortFile, expected, expected + 1}

readbytes ==
  /\ At("readbytes")
  /\ \/ /\ rd' = [called |-> TRUE, opened |-> FALSE, size |-> -1,
                   expected |-> Cur.expected]
        /\ UNCHANGED mem
        /\ Return
     \/ \E size \in FileSizes(Cur.expected) :
          /\ rd' = [called |-> TRUE, opened |-> TRUE, size |-> size,
                     expected |-> Cur.expected]
          /\ mem' = [mem EXCEPT ![Cur.buffer] =
                       [src |-> "file", off |-> 0, len |-> Min(size, heap[Cur.buffer])]]
          /\ IF size <= heap[Cur.buffer]
               THEN Return
               ELSE Return \/ Fault
  /\ last' = Cur
  /\ UNCHANGED <<frame, render, test, bufvars, texvars, heap, ctxvars, glerr>>

\* whether c holds n bytes of the file from offset o on
Holds(c, o, n) == c.src = "file" /\ c.off = o /\ c.len = n

\* lines 1336-1343: the BGRA block built from the three planes, defined
\* when every plane is
repack ==
  /\ At("repack")
  /\ LET size == Cur.w * Cur.h
         whole == \A p \in {"y", "u", "v"} :
                    Holds(mem[p \o "_image"], PlaneRegion(size)[p].off,
                          PlaneRegion(size)[p].len)
     IN  mem' = [mem EXCEPT !["dummypayload"] =
                   IF whole THEN [src |-> "block", off |-> 0, len |-> Cur.h * Cur.stridesize]
                            ELSE Nothing]
  /\ last' = Cur
  /\ Return
  /\ UNCHANGED <<frame, render, test, bufvars, texvars, heap, rd, ctxvars, glerr>>

(***************************************************************************)
(* Textures.                                                               *)
(***************************************************************************)
glGenTextures ==
  /\ At("glGenTextures")
  /\ tex' = [tex EXCEPT ![Cur.tex] = [NoTexture EXCEPT !.gen = TRUE]]
  /\ last' = Cur
  /\ Return
  /\ UNCHANGED <<frame, render, test, bufvars, unit, bound2d, cpuvars, ctxvars, glerr>>

glActiveTexture ==
  /\ At("glActiveTexture")
  /\ Log(Cur.op)
  /\ unit' = Cur.unit
  /\ last' = Cur
  /\ Return
  /\ UNCHANGED <<frame, test, bufvars, tex, bound2d, cpuvars, ctxvars, glerr>>

glBindTexture ==
  /\ At("glBindTexture")
  /\ Log(Cur.op)
  /\ bound2d' = [bound2d EXCEPT ![unit] = Cur.tex]
  /\ last' = Cur
  /\ Return
  /\ UNCHANGED <<frame, test, bufvars, tex, unit, cpuvars, ctxvars, glerr>>

\* bytes a transfer of w x h pixels reads from its source
TransferBytes(w, h, format, type) == w * h * BytesPerPixel(format, type)

\* whether a transfer of n bytes can be read from the bound unpack buffer:
\* its store is not mapped and holds n bytes
Readable(n) == ~pbo[unpack].mapped /\ n <= pbo[unpack].size

\* glTexImage2D(GL_TEXTURE_2D, 0, internal_format, w, h, 0, format, type, 0):
\* storage for the bound texture; with no unpack buffer bound the null data
\* pointer means "no upload", with one bound it is offset 0 into the buffer.
glTexImage2D ==
  /\ At("glTexImage2D")
  /\ LET t == bound2d[unit]
         n == TransferBytes(Cur.w, Cur.h, Cur.format, Cur.type)
         ok == t # "0" /\ (unpack # "0" => Readable(n))
     IN  /\ IF ok
              THEN /\ tex' = [tex EXCEPT ![t] =
                        [gen |-> TRUE, w |-> Cur.w, h |-> Cur.h,
                         internal_format |-> Cur.internal_format,
                         format |-> Cur.format, type |-> Cur.type,
                         image |-> IF unpack = "0" THEN Nothing
                                   ELSE Slice(pbo[unpack].store, 0, n),
                         copies |-> tex[t].copies, source |-> tex[t].source]]
                   /\ UNCHANGED glerr
              ELSE /\ glerr' = glerr + 1
                   /\ UNCHANGED tex
         /\ last' = [op |-> "glTexImage2D", tex |-> t, buf |-> unpack, ok |-> ok]
  /\ Return
  /\ UNCHANGED <<frame, render, test, bufvars, unit, bound2d, cpuvars, ctxvars>>

\* glTexSubImage2D(GL_TEXTURE_2D, 0, 0, 0, w, h, format, type, 0): the copy
\* from the bound unpack buffer (offset 0) into the bound texture.  With no
\* unpack buffer bound the null pointer is read as client memory: a fault.
\* The copy is refused with an error when the buffer is mapped, when it
\* holds fewer bytes than the transfer reads, or when the region does not
\* fit the texture.
glTexSubImage2D ==
  /\ At("glTexSubImage2D")
  /\ LET t == bound2d[unit]
         n == TransferBytes(Cur.w, Cur.h, Cur.format, Cur.type)
         ok == /\ t # "0"
               /\ unpack # "0"
               /\ Readable(n)
               /\ Cur.w <= tex[t].w /\ Cur.h <= tex[t].h
     IN  /\ last' = [op |-> "glTexSubImage2D", tex |-> t, buf |-> unpack,
                     w |-> Cur.w, h |-> Cur.h, format |-> Cur.format,
                     type |-> Cur.type, bytes |-> n,
                     capacity |-> IF unpack = "0" THEN 0 ELSE pbo[unpack].size,
                     mapped |-> (unpack # "0" /\ pbo[unpack].mapped),
                     previous |-> IF t = "0" THEN "0" ELSE tex[t].source,
                     ok |-> ok]
         /\ IF unpack = "0"
              THEN Fault /\ UNCHANGED <<tex, glerr>>
              ELSE /\ Return
                   /\ IF ok
                        THEN /\ tex' = [tex EXCEPT
                                  ![t].image = Slice(pbo[unpack].store, 0, n),
                                  ![t].copies = @ + 1,
                                  ![t].source = unpack]
                             /\ UNCHANGED glerr
                        ELSE /\ glerr' = glerr + 1
                             /\ tex' = IF t = "0" THEN tex
                                       ELSE [tex EXCEPT ![t].copies = @ + 1,
                                                        ![t].source = unpack]
  /\ UNCHANGED <<frame, render, test, bufvars, unit, bound2d, cpuvars, ctxvars>>

(***************************************************************************)
(* Rationals <<n, d>> in lowest terms, d > 0: the GLfloat values of the    *)
(* transform (r, dx, dy), kept exact.                                      *)
(***************************************************************************)
RECURSIVE GCD(_, _)
GCD(a, b) == IF b = 0 THEN a ELSE GCD(b, a % b)

Rat(n, d) == LET g == GCD(n, d) IN <<n \div g, d \div g>>
One  == <<1, 1>>
Zero == <<0, 1>>
RLess(a, b) == a[1] * b[2] < b[1] * a[2]
RInv(a) == <<a[2], a[1]>>

Identity == [i \in 1..16 |-> IF i \in {1, 6, 11, 16} THEN One ELSE Zero]

(***************************************************************************)
(* The sizes a window can have when it is drawn to: the 600 x 600 it was   *)
(* created with, or what it was resized to since.                          *)
(***************************************************************************)
MaxWin == 3

WinSizes ==
  {<<600, 600>>, <<800, 600>>, <<1920, 1080>>}
    \cup {<<x, y>> : x \in 1..MaxWin, y \in 1..MaxWin}

(***************************************************************************)
(* OpenGLContext (lines 594-630).  The display, each framebuffer           *)
(* configuration list and the context may be missing; a missing display or *)
(* list is dereferenced (DefaultRootWindow, fbConfigs[0]), a missing       *)
(* context ends the process with exit(2).                                  *)
(***************************************************************************)
OpenGLContext ==
  /\ At("OpenGLContext")
  /\ \E display_id \in {"ok", "NULL"}, dbl \in {"ok", "NULL"},
        sgl \in {"ok", "NULL"}, glc \in {"ok", "NULL"} :
       LET fbConfigs == IF dbl = "ok" THEN "ok" ELSE sgl
       IN  /\ ctx' = [ctx EXCEPT !.display_id = display_id,
                                 !.doublebuffer_flag = (dbl = "ok"),
                                 !.fbConfigs = IF display_id = "ok" THEN fbConfigs ELSE "none",
                                 !.glc = IF display_id = "ok" /\ fbConfigs = "ok"
                                           THEN glc ELSE "none"]
           /\ IF display_id = "NULL" \/ fbConfigs = "NULL"
                THEN Fault
                ELSE IF glc = "NULL"
                  THEN pc' = pc /\ status' = "exited"
                  ELSE Return
           /\ last' = [op |-> "OpenGLContext",
                       display_id |-> display_id,
                       fbConfigs  |-> IF display_id = "ok" THEN fbConfigs ELSE "none",
                       glc        |-> IF display_id = "ok" /\ fbConfigs = "ok"
                                        THEN glc ELSE "none",
                       \* DefaultRootWindow(display_id), fbConfigs[0]
                       dereferenced |->
                         {x \in {"display_id", "fbConfigs"} :
                            \/ x = "display_id" /\ display_id = "NULL"
                            \/ x = "fbConfigs" /\ display_id = "ok" /\ fbConfigs = "NULL"}]
  /\ UNCHANGED <<frame, render, test, bufvars, texvars, cpuvars, glew, shader, fb, glerr>>

\* glXMakeCurrent(display_id, window, glc), in makeCurrent (lines 641-643) and
\* at the head of the render functions (lines 762-764, 841-843); when it
\* fails the drawable that was current stays current.  asked collects the
\* windows it has been called with.
glXMakeCurrent ==
  /\ At("glXMakeCurrent")
  /\ \E ok \in BOOLEAN :
       /\ ctx' = [ctx EXCEPT !.current = IF ok THEN Cur.window ELSE @,
                                 !.asked = @ \cup {Cur.window}]
       /\ last' = [op |-> "glXMakeCurrent", window |-> Cur.window, ok |-> ok,
                   checked |-> Cur.checked]
       /\ render' = IF Cur.checked
                       THEN [render EXCEPT
                               !.active = TRUE, !.n = @ + 1, !.ok = ok,
                               !.steps = <<"glXMakeCurrent">>,
                               !.before = [tex |-> tex, pbo |-> pbo, unpack |-> unpack]]
                       ELSE render
  /\ Return
  /\ UNCHANGED <<frame, test, bufvars, texvars, cpuvars, glew, shader, fb, glerr>>

\* loadExtensions (lines 646-653): nothing to do when the PBO extension is
\* already loaded; otherwise on to makeCurrent(root_id) and glewInit
loadExtensions ==
  /\ At("loadExtensions")
  /\ pc' = IF glew.pbo_ext THEN pc + 1 + Cur.skip ELSE pc + 1
  /\ status' = "running"
  /\ last' = Cur
  /\ UNCHANGED <<frame, render, test, bufvars, texvars, cpuvars, ctxvars, glerr>>

\* glewInit and the report of what it found (lines 657-676): it fails with no
\* current context, and may fail otherwise; the PBO extension may be absent,
\* and pixel buffer objects may then still be part of the GL version.
glewInit ==
  /\ At("glewInit")
  /\ \E ok \in BOOLEAN, ext \in BOOLEAN, core \in BOOLEAN :
       /\ ok => ctx.current # "none"
       /\ ~ok => (~ext /\ ~core)
       /\ ext => core
       /\ glew' = [init |-> IF ok THEN "ok" ELSE "failed", pbo_ext |-> ext, pbo |-> core]
  /\ last' = Cur
  /\ Return
  /\ UNCHANGED <<frame, render, test, bufvars, texvars, cpuvars, ctx, shader, fb, glerr>>

\* a call through an entry point that glewInit has not loaded
NullEntryPoint ==
  /\ status = "running"
  /\ pc <= Len(Prog)
  /\ Cur.op \in GlewCalls
  /\ glew.init # "ok"
  /\ last' = [op |-> Cur.op, null_entry |-> TRUE]
  /\ Fault
  /\ UNCHANGED <<frame, render, test, bufvars, texvars, cpuvars, ctxvars, glerr>>

\* createWindow (lines 680-695): a 600 x 600 window, mapped
createWindow ==
  /\ At("createWindow")
  /\ ctx' = [ctx EXCEPT !.win = "created"]
  /\ last' = Cur
  /\ Return
  /\ UNCHANGED <<frame, render, test, bufvars, texvars, cpuvars, glew, shader, fb, glerr>>

(***************************************************************************)
(* The shader: compile (lines 265-319), use (342-345), findVars (379-397,  *)
(* 490-513).  A failed compile or link is printed and compile returns as   *)
(* after a success.                                                        *)
(***************************************************************************)
compile ==
  /\ At("compile")
  /\ \E vs \in BOOLEAN, fs \in BOOLEAN, link \in BOOLEAN :
       /\ link => (vs /\ fs)
       /\ shader' = [shader EXCEPT
            !.kind = Cur.kind,
            !.program = IF link THEN "linked" ELSE "unlinked",
            !.reported = {x \in {"vertex", "fragment", "link"} :
                            \/ x = "vertex" /\ ~vs
                            \/ x = "fragment" /\ ~fs
                            \/ x = "link" /\ ~link}]
  /\ last' = Cur
  /\ Return
  /\ UNCHANGED <<frame, render, test, bufvars, texvars, cpuvars, ctx, glew, fb, glerr>>

\* glUseProgram(program): an error, and no change, for a program not linked
glUseProgram ==
  /\ At("glUseProgram")
  /\ Log(Cur.op)
  /\ IF shader.program = "linked"
       THEN shader' = [shader EXCEPT !.used = TRUE] /\ UNCHANGED glerr
       ELSE glerr' = glerr + 1 /\ UNCHANGED shader
  /\ last' = [op |-> "glUseProgram", program |-> shader.program]
  /\ Return
  /\ UNCHANGED <<frame, test, bufvars, texvars, cpuvars, ctx, glew, fb>>

\* the uniforms of each shader's source, in the order findVars looks them up
Uniforms(kind) ==
  IF kind = "YUVShader" THEN <<"transform", "texy", "texu", "texv">>
                        ELSE <<"transform", "texBlock">>

\* glGetUniformLocation(program, name): -1 for a program not linked
Location(name) ==
  IF shader.program = "linked" /\ \E i \in DOMAIN Uniforms(shader.kind) :
                                      Uniforms(shader.kind)[i] = name
    THEN CHOOSE i \in DOMAIN Uniforms(shader.kind) : Uniforms(shader.kind)[i] = name
    ELSE -1

findVars ==
  /\ At("findVars")
  /\ shader' = [shader EXCEPT !.loc =
       [n \in {"transform", "texy", "texu", "texv", "texBlock"} |->
          IF \E i \in DOMAIN Uniforms(shader.kind) : Uniforms(shader.kind)[i] = n
            THEN Location(n) ELSE @[n]]]
  /\ glerr' = IF shader.program = "linked" THEN glerr ELSE glerr + 1
  /\ last' = Cur
  /\ Return
  /\ UNCHANGED <<frame, render, test, bufvars, texvars, cpuvars, ctx, glew, fb>>

\* glUniform1i(shader->name, value): ignored for location -1, an error with
\* no program in use
glUniform1i ==
  /\ At("glUniform1i")
  /\ Log(Cur.op)
  /\ LET loc == shader.loc[Cur.name]
     IN  /\ IF loc = -1
              THEN UNCHANGED <<shader, glerr>>
              ELSE IF ~shader.used
                THEN glerr' = glerr + 1 /\ UNCHANGED shader
                ELSE shader' = [shader EXCEPT !.value[Cur.name] = Cur.value]
                     /\ UNCHANGED glerr
         /\ last' = [op |-> "glUniform1i", name |-> Cur.name, loc |-> loc,
                     value |-> Cur.value]
  /\ Return
  /\ UNCHANGED <<frame, test, bufvars, texvars, cpuvars, ctx, glew, fb>>

\* reserve (lines 698-755): the identity transform, the quad and its indices,
\* the vertex array with its two buffers
reserve ==
  /\ At("reserve")
  /\ ctx' = [ctx EXCEPT !.transform = Identity, !.VAO = "reserved"]
  /\ last' = Cur
  /\ Return
  /\ UNCHANGED <<frame, render, test, bufvars, texvars, cpuvars, glew, shader, fb, glerr>>

(***************************************************************************)
(* The steps of renderYUVShader (lines 758-834) and renderYUVBlockShader   *)
(* (lines 837-907).                                                        *)
(***************************************************************************)
\* XGetWindowAttributes(display_id, window_id, &x_window_attr)
XGetWindowAttributes ==
  /\ At("XGetWindowAttributes")
  /\ \E size \in WinSizes :
       /\ ctx' = [ctx EXCEPT !.x_window_attr = [width |-> size[1], height |-> size[2]]]
       /\ render' = [render EXCEPT !.steps = Append(@, Cur.op),
                                    !.sizes = Append(@, size)]
  /\ last' = Cur
  /\ Return
  /\ UNCHANGED <<frame, test, bufvars, texvars, cpuvars, glew, shader, fb, glerr>>

glViewport ==
  /\ At("glViewport")
  /\ Log(Cur.op)
  /\ fb' = [fb EXCEPT !.viewport = ctx.x_window_attr]
  /\ last' = Cur
  /\ Return
  /\ UNCHANGED <<frame, test, bufvars, texvars, cpuvars, ctx, glew, shader, glerr>>

\* what an empty colour buffer shows
Blank == [drawn |-> FALSE, units |-> [u \in 0..2 |-> "0"],
          images |-> [u \in 0..2 |-> Nothing],
          value |-> [n \in {"texy", "texu", "texv", "texBlock"} |-> 0],
          transform |-> <<>>]

\* the buffer the context draws to
DrawBuffer == IF ctx.doublebuffer_flag THEN "back" ELSE "front"

glClear ==
  /\ At("glClear")
  /\ Log(Cur.op)
  /\ fb' = [fb EXCEPT ![DrawBuffer] = Blank]
  /\ last' = Cur
  /\ Return
  /\ UNCHANGED <<frame, test, bufvars, texvars, cpuvars, ctx, glew, shader, glerr>>

\* the ratio with image width and height exchanged
computeScale_inverted(width, height) ==
  LET r == Rat(height * 1080, width * 1920)
  IN  IF RLess(r, One) THEN <<r, One>>
      ELSE IF RLess(One, r) THEN <<One, RInv(r)>>
      ELSE <<One, One>>

\* the two branches exchanged: the vertical scale reduced for r < 1, the
\* horizontal one for r > 1
computeScale_swapped(width, height) ==
  LET r == Rat(height * 1920, width * 1080)
  IN  IF RLess(r, One) THEN <<One, r>>
      ELSE IF RLess(One, r) THEN <<RInv(r), One>>
      ELSE <<One, One>>

\* the ratio taken as the horizontal scale whatever it is
computeScale_unclamped(width, height) ==
  LET r == Rat(height * 1920, width * 1080)
  IN  <<r, One>>

\* lines 789-803 and 862-876: r = (screeny/screenx) / (iy/ix) with ix = 1920
\* and iy = 1080, and the scales <<dx, dy>> it gives
computeScale(width, height) ==
  LET r == Rat(height * 1920, width * 1080)
  IN  IF RLess(r, One) THEN <<r, One>>
      ELSE IF RLess(One, r) THEN <<One, RInv(r)>>
      ELSE <<One, One>>

\* the scales multiplied into the transform instead of stored in it
computeTransform_accumulate ==
  /\ At("computeTransform")
  /\ Log(Cur.op)
  /\ LET d == computeScale(ctx.x_window_attr.width, ctx.x_window_attr.height)
         mul(x, y) == Rat(x[1] * y[1], x[2] * y[2])
     IN  /\ ctx' = [ctx EXCEPT !.transform[1] = mul(@, d[1]),
                               !.transform[6] = mul(@, d[2])]
         /\ last' = [op |-> "computeTransform", dx |-> d[1], dy |-> d[2]]
  /\ Return
  /\ UNCHANGED <<frame, test, bufvars, texvars, cpuvars, glew, shader, fb, glerr>>

\* lines 789-809 and 862-882: transform[0] = dx, transform[5] = dy
computeTransform ==
  /\ At("computeTransform")
  /\ Log(Cur.op)
  /\ LET d == computeScale(ctx.x_window_attr.width, ctx.x_window_attr.height)
     IN  /\ ctx' = [ctx EXCEPT !.transform[1] = d[1], !.transform[6] = d[2]]
         /\ last' = [op |-> "computeTransform", dx |-> d[1], dy |-> d[2]]
  /\ Return
  /\ UNCHANGED <<frame, test, bufvars, texvars, cpuvars, glew, shader, fb, glerr>>

\* glUniformMatrix4fv(shader->transform, 1, GL_FALSE, transform.data())
glUniformMatrix4fv ==
  /\ At("glUniformMatrix4fv")
  /\ Log(Cur.op)
  /\ IF shader.loc["transform"] = -1
       THEN UNCHANGED <<shader, glerr>>
       ELSE IF ~shader.used
         THEN glerr' = glerr + 1 /\ UNCHANGED shader
         ELSE shader' = [shader EXCEPT !.matrix = ctx.transform] /\ UNCHANGED glerr
  /\ last' = [op |-> "glUniformMatrix4fv", loc |-> shader.loc["transform"]]
  /\ Return
  /\ UNCHANGED <<frame, test, bufvars, texvars, cpuvars, ctx, glew, fb>>

glBindVertexArray ==
  /\ At("glBindVertexArray")
  /\ Log(Cur.op)
  /\ ctx' = [ctx EXCEPT !.bound_vao = Cur.vao]
  /\ last' = Cur
  /\ Return
  /\ UNCHANGED <<frame, test, bufvars, texvars, cpuvars, glew, shader, fb, glerr>>

\* glDrawElements(GL_TRIANGLES, 6, GL_UNSIGNED_INT, 0): the quad, sampled from
\* the textures bound to the units, scaled by the transform uniform; nothing
\* defined is drawn without a program in use
glDrawElements ==
  /\ At("glDrawElements")
  /\ LET pic == [drawn |-> TRUE, units |-> bound2d,
                 images |-> [u \in 0..2 |->
                   IF bound2d[u] = "0" THEN Nothing ELSE tex[bound2d[u]].image],
                 value |-> shader.value, transform |-> shader.matrix]
         ok == shader.used /\ ctx.bound_vao = "VAO" /\ ctx.VAO = "reserved"
     IN  /\ IF ok
              THEN fb' = [fb EXCEPT ![DrawBuffer] = pic, !.draws = @ + 1]
              ELSE fb' = [fb EXCEPT !.draws = @ + 1]
         /\ glerr' = IF ok THEN glerr ELSE glerr + 1
         /\ render' = IF render.active
                         THEN [render EXCEPT
                                 !.steps = Append(@, Cur.op),
                                 !.draws = Append(@, [pic EXCEPT !.drawn = ok])]
                         ELSE render
         /\ last' = [op |-> "glDrawElements", units |-> bound2d, unpack |-> unpack,
                     copies |-> [u \in 0..2 |->
                       IF bound2d[u] = "0" THEN 0 ELSE tex[bound2d[u]].copies],
                     ok |-> ok]
  /\ Return
  /\ UNCHANGED <<frame, test, bufvars, texvars, cpuvars, ctx, glew, shader>>

\* lines 827-830 and 900-903: if (doublebuffer_flag) glXSwapBuffers(...)
glXSwapBuffers ==
  /\ At("glXSwapBuffers")
  /\ IF ctx.doublebuffer_flag
       THEN fb' = [fb EXCEPT !.front = fb.back, !.swaps = @ + 1]
       ELSE UNCHANGED fb
  /\ render' = [render EXCEPT
                   !.active = FALSE,
                   !.steps = IF ctx.doublebuffer_flag THEN Append(@, Cur.op) ELSE @]
  /\ last' = [op |-> "glXSwapBuffers", swapped |-> ctx.doublebuffer_flag]
  /\ Return
  /\ UNCHANGED <<frame, test, bufvars, texvars, cpuvars, ctx, glew, shader, glerr>>


progvars == <<test, pc, status, pbo, unpack, tex, unit, bound2d, ptr, released,
              mem, heap, rd, ctx, glew, shader, fb, glerr, last, render>>

vars == <<progvars, frame>>

\* no frame is followed byte by byte
NoFrame == [w |-> 0, h |-> 0, image |-> <<>>, y_image |-> <<>>, u_image |-> <<>>,
            v_image |-> <<>>, dummypayload |-> <<>>, i |-> 0, j |-> 0,
            step |-> "none"]

ProgInit(tests) ==
  /\ test \in tests
  /\ pc = 1
  /\ status = "running"
  /\ pbo = [b \in Buffers |-> NoBuffer]
  /\ unpack = "0"
  /\ tex = [t \in Textures |-> NoTexture]
  /\ unit = 0
  /\ bound2d = [u \in 0..2 |-> "0"]
  /\ ptr = [p \in Pointers |-> "uninit"]
  /\ released = {}
  /\ mem = [a \in Arrays |-> Nothing]
  /\ heap = [a \in Arrays |-> 0]
  /\ rd = [called |-> FALSE, opened |-> FALSE, size |-> 0, expected |-> 0]
  /\ ctx = [display_id |-> "none", fbConfigs |-> "none", glc |-> "none",
            doublebuffer_flag |-> FALSE, current |-> "none", asked |-> {},
            win |-> "none",
            x_window_attr |-> [width |-> 0, height |-> 0],
            transform |-> [i \in 1..16 |-> Zero], VAO |-> "none", bound_vao |-> "0"]
  /\ glew = [init |-> "none", pbo_ext |-> FALSE, pbo |-> FALSE]
  /\ shader = [kind |-> "none", program |-> "none", reported |-> {}, used |-> FALSE,
               loc |-> [n \in {"transform", "texy", "texu", "texv", "texBlock"} |-> -1],
               value |-> [n \in {"texy", "texu", "texv", "texBlock"} |-> 0],
               matrix |-> <<>>]
  /\ fb = [viewport |-> [width |-> 0, height |-> 0], back |-> Blank, front |-> Blank,
           draws |-> 0, swaps |-> 0]
  /\ glerr = 0
  /\ last = [op |-> "none"]
  /\ render = NoRender

Init ==
  /\ ProgInit(Tests)
  /\ frame = NoFrame

(***************************************************************************)
(* The frame computations of test_5 (lines 1285-1307, 1336-1343) on a      *)
(* frame of w x h pixels, byte by byte: the raw frame image, its split     *)
(* into y_image, u_image and v_image, and the repacking loop that fills    *)
(* dummypayload one pixel per step.  Arrays are sequences; the C index k   *)
(* is the sequence index k + 1.  A byte never written is -1.               *)
(***************************************************************************)
\* half the largest width and height
MaxHalf == 2
\* the number of raw frames tried per size
MaxSeed == 3

EvenDims == {2 * k : k \in 1..MaxHalf}

\* seq[k], for a C index k; a read past the end gives no defined byte
Read(seq, k) == IF k >= 0 /\ k < Len(seq) THEN seq[k + 1] ELSE -1

\* the n bytes of seq from C index off on
Bytes(seq, off, n) == [k \in 1..n |-> Read(seq, off + k - 1)]

\* a raw frame as readbytes leaves it in image: yuvsize bytes
NewFrame(w, h, seed) ==
  LET size    == w * h
      yuvsize == (3 * size) \div 2
      texsize == size * 4
  IN  [w |-> w, h |-> h,
       image |-> [k \in 1..yuvsize |-> (250 + seed + k) % 256],
       y_image |-> [k \in 1..size |-> -1],
       u_image |-> [k \in 1..(size \div 4) |-> -1],
       v_image |-> [k \in 1..(size \div 4) |-> -1],
       dummypayload |-> [k \in 1..texsize |-> -1],
       i |-> 0, j |-> 0, step |-> "loaded"]

\* lines 1305-1307: the three memcpy
split ==
  /\ frame.step = "loaded"
  /\ LET r == PlaneRegion(frame.w * frame.h)
     IN  frame' = [frame EXCEPT
           !.y_image = Bytes(frame.image, r.y.off, r.y.len),
           !.u_image = Bytes(frame.image, r.u.off, r.u.len),
           !.v_image = Bytes(frame.image, r.v.off, r.v.len),
           !.step = "split"]
  /\ UNCHANGED progvars

\* the chroma index with the line offset (i*w)/4 of line 1370
UVIndex_quarter(i, j, w) == (i * w) \div 4 + j \div 8

\* the luma index without the division of the byte column by 4
YIndex_byteColumn(i, j, w) == i * w + j

\* the indices of lines 1338-1340
YIndex(i, j, w)  == i * w + j \div 4
UVIndex(i, j, w) == (i \div 2) * (w \div 2) + j \div 8

\* lines 1336-1343: one pass of the inner loop, then j = j + 4 and, at the
\* end of a line, the next i
repackPixel ==
  /\ frame.step = "split"
  /\ frame.i < frame.h
  /\ LET i == frame.i
         j == frame.j
         w == frame.w
         stridesize == w * 4
         at == i * stridesize + j
     IN  frame' = [frame EXCEPT
           !.dummypayload = [@ EXCEPT
              ![at + 1] = Read(frame.y_image, YIndex(i, j, w)),
              ![at + 2] = Read(frame.u_image, UVIndex(i, j, w)),
              ![at + 3] = Read(frame.v_image, UVIndex(i, j, w)),
              ![at + 4] = 255],
           !.j = IF j + 4 < stridesize THEN j + 4 ELSE 0,
           !.i = IF j + 4 < stridesize THEN i ELSE i + 1]
  /\ UNCHANGED progvars

\* the loop is left
repackDone ==
  /\ frame.step = "split"
  /\ frame.i >= frame.h
  /\ frame' = [frame EXCEPT !.step = "packed"]
  /\ UNCHANGED progvars

(***************************************************************************)
(* What the shader reads back (lines 1264-1270, 566-574): the texture is   *)
(* filled from the block as GL_BGRA, GL_UNSIGNED_INT_8_8_8_8_REV, which    *)
(* on a little-endian host takes blue, green, red and alpha from bytes     *)
(* 0, 1, 2 and 3 of each pixel; get_yuv_from_texture takes y from .b, u    *)
(* from .g and v from .r.                                                  *)
(***************************************************************************)
Texel(block, w, row, col) ==
  LET at == 4 * (row * w + col)
  IN  [b |-> Read(block, at), g |-> Read(block, at + 1),
       r |-> Read(block, at + 2), a |-> Read(block, at + 3)]

get_yuv_from_texture(block, w, row, col) ==
  LET t == Texel(block, w, row, col)
  IN  [x |-> t.b, y |-> t.g, z |-> t.r]

FrameInit ==
  /\ ProgInit({5})
  /\ \E w \in EvenDims, h \in EvenDims, seed \in 0..MaxSeed :
       frame = NewFrame(w, h, seed)

FrameNext ==
  \/ split
  \/ repackPixel
  \/ repackDone

SpecFrame == FrameInit /\ [][FrameNext]_vars

(***************************************************************************)
(* The render call made twice.  The state at the call of renderYUVShader   *)
(* (line 1238, test_4) or renderYUVBlockShader (line 1409, test_5) after   *)
(* a run in which every call before it succeeded and every write through a *)
(* payload pointer landed in its buffer, with a double or a single         *)
(* buffered context; from there the call is made, and made again.          *)
(***************************************************************************)
\* the index of the first call of the render function in the test's calls
RenderStart(t) ==
  IF t = 4 THEN Len(test_4) - Len(renderYUVShader("win", "y_tex", "u_tex", "v_tex")) + 1
           ELSE Len(test_5) - Len(renderYUVBlockShader("win", "tex")) + 1

AtRender(t) ==
  LET w       == 1280
      h       == 720
      size    == w * h
      yuvsize == (3 * size) \div 2
      texsize == size * 4
      file(r) == [src |-> "file", off |-> r.off, len |-> r.len]
      block   == [src |-> "block", off |-> 0, len |-> texsize]
      plane   == [y |-> file(PlaneRegion(size).y), u |-> file(PlaneRegion(size).u),
                  v |-> file(PlaneRegion(size).v)]
      buffer(c) == [gen |-> TRUE, size |-> c.len, mapped |-> FALSE, store |-> c,
                    written |-> TRUE]
      texture(c, b, tw, th, internal_format, format, type) ==
        [gen |-> TRUE, w |-> tw, h |-> th, internal_format |-> internal_format,
         format |-> format, type |-> type, image |-> c, copies |-> 10, source |-> b]
      kind == IF t = 4 THEN "YUVShader" ELSE "YUVBlockShader"
  IN  /\ status = "running"
      /\ pbo = IF t = 4
                 THEN [b \in Buffers |->
                         CASE b = "y_pbo" -> buffer(plane.y)
                           [] b = "u_pbo" -> buffer(plane.u)
                           [] b = "v_pbo" -> buffer(plane.v)
                           [] OTHER -> NoBuffer]
                 ELSE [b \in Buffers |-> IF b = "pbo" THEN buffer(block) ELSE NoBuffer]
      /\ unpack = "0"
      /\ tex = IF t = 4
                 THEN [x \in Textures |->
                         CASE x = "y_tex" -> texture(plane.y, "y_pbo", w, h, "GL_RED",
                                                     "GL_RED", "GL_UNSIGNED_BYTE")
                           [] x = "u_tex" -> texture(plane.u, "u_pbo", w \div 2, h \div 2,
                                                     "GL_RED", "GL_RED", "GL_UNSIGNED_BYTE")
                           [] x = "v_tex" -> texture(plane.v, "v_pbo", w \div 2, h \div 2,
                                                     "GL_RED", "GL_RED", "GL_UNSIGNED_BYTE")
                           [] OTHER -> NoTexture]
                 ELSE [x \in Textures |->
                         IF x = "tex"
                           THEN texture(block, "pbo", w, h, "GL_RGBA8", "GL_BGRA",
                                        "GL_UNSIGNED_INT_8_8_8_8_REV")
                           ELSE NoTexture]
      /\ unit = 0
      /\ bound2d = [u \in 0..2 |-> "0"]
      /\ ptr = IF t = 4
                 THEN [q \in Pointers |->
                         CASE q = "y_payload" -> "y_pbo"
                           [] q = "u_payload" -> "u_pbo"
                           [] q = "v_payload" -> "v_pbo"
                           [] OTHER -> "uninit"]
                 ELSE [q \in Pointers |-> IF q = "payload" THEN "pbo" ELSE "uninit"]
      /\ released = IF t = 4 THEN {"y_payload", "u_payload", "v_payload"} ELSE {"payload"}
      /\ mem = [a \in Arrays |->
                  CASE a = "image"   -> [src |-> "file", off |-> 0, len |-> yuvsize]
                    [] a = "y_image" -> plane.y
                    [] a = "u_image" -> plane.u
                    [] a = "v_image" -> plane.v
                    [] OTHER -> IF t = 4 THEN Nothing ELSE block]
      /\ heap = [a \in Arrays |->
                   CASE a = "image"   -> yuvsize
                     [] a = "y_image" -> size
                     [] a = "u_image" -> size \div 4
                     [] a = "v_image" -> size \div 4
                     [] OTHER -> IF t = 4 THEN 0 ELSE texsize]
      /\ rd = [called |-> TRUE, opened |-> TRUE, size |-> yuvsize, expected |-> yuvsize]
      /\ \E dbl \in BOOLEAN :
           ctx = [display_id |-> "ok", fbConfigs |-> "ok", glc |-> "ok",
                  doublebuffer_flag |-> dbl, current |-> "win",
                  asked |-> {"root_id", "win"}, win |-> "created",
                  x_window_attr |-> [width |-> 0, height |-> 0],
                  transform |-> Identity, VAO |-> "reserved", bound_vao |-> "0"]
      /\ glew = [init |-> "ok", pbo_ext |-> TRUE, pbo |-> TRUE]
      /\ shader = [kind |-> kind, program |-> "linked", reported |-> {}, used |-> TRUE,
                   loc |-> [n \in {"transform", "texy", "texu", "texv", "texBlock"} |->
                              IF \E i \in DOMAIN Uniforms(kind) : Uniforms(kind)[i] = n
                                THEN CHOOSE i \in DOMAIN Uniforms(kind) : Uniforms(kind)[i] = n
                                ELSE -1],
                   value |-> [n \in {"texy", "texu", "texv", "texBlock"} |-> 0],
                   matrix |-> <<>>]
      /\ fb = [viewport |-> [width |-> 0, height |-> 0], back |-> Blank, front |-> Blank,
               draws |-> 0, swaps |-> 0]
      /\ glerr = 0
      /\ last = [op |-> "glBindTexture", tex |-> "0"]
      /\ render = NoRender

RenderInit ==
  /\ \E t \in {4, 5} :
       /\ test = t + 10
       /\ pc = RenderStart(t)
       /\ AtRender(t)
  /\ frame = NoFrame

RenderNext ==
  \/ glXMakeCurrent
  \/ XGetWindowAttributes
  \/ glViewport
  \/ glClear
  \/ glUseProgram
  \/ glActiveTexture
  \/ glBindTexture
  \/ glUniform1i
  \/ computeTransform
  \/ glUniformMatrix4fv
  \/ glBindVertexArray
  \/ glDrawElements
  \/ glXSwapBuffers

SpecRender == RenderInit /\ [][RenderNext]_vars

Next ==
  \/ glGenBuffers
  \/ glBindBuffer
  \/ glBufferData
  \/ glMapBuffer
  \/ glUnmapBuffer
  \/ memcpy
  \/ memset
  \/ new_GLubyte
  \/ readbytes
  \/ repack
  \/ glGenTextures
  \/ glActiveTexture
  \/ glBindTexture
  \/ glTexImage2D
  \/ glTexSubImage2D
  \/ OpenGLContext
  \/ glXMakeCurrent
  \/ loadExtensions
  \/ glewInit
  \/ NullEntryPoint
  \/ createWindow
  \/ compile
  \/ glUseProgram
  \/ findVars
  \/ glUniform1i
  \/ reserve
  \/ XGetWindowAttributes
  \/ glViewport
  \/ glClear
  \/ computeTransform
  \/ glUniformMatrix4fv
  \/ glBindVertexArray
  \/ glDrawElements
  \/ glXSwapBuffers

Spec == Init /\ [][Next]_vars

(***************************************************************************)
(* The properties.                                                         *)
(***************************************************************************)
\* a CPU write through a pointer into a buffer's store
BufferWrite == last.op \in {"memcpy", "memset"} /\ last.dst \in Pointers

\* C1: the CPU writes into a staging buffer's memory only while that buffer
\* is mapped: no write through the pointer after the unmap.
C1_WriteOnlyWhileMapped ==
  (BufferWrite /\ last.buf \in Buffers) => last.mapped

\* a texture copy issued with a staging buffer bound as its source
CopyIssued == last.op = "glTexSubImage2D" /\ last.buf \in Buffers

\* C2: whenever a texture copy is issued from a staging buffer, the buffer
\* is not mapped, and every mapping of it made before has been released.
C2_CopySourceUnmapped ==
  CopyIssued =>
    /\ ~last.mapped
    /\ ~pbo[last.buf].mapped
    /\ \A p \in Pointers : ptr[p] = last.buf => p \in released

\* a copy of test_4's v plane that was carried out, from a buffer that had
\* been mapped and unmapped
C2_Witness ==
  /\ test = 4
  /\ CopyIssued
  /\ last.buf = "v_pbo"
  /\ last.ok
  /\ ptr["v_payload"] = "v_pbo"
  /\ "v_payload" \in released

\* C3: in test_4 and test_5, every texture bound to a texture unit when the
\* draw call is made has had at least one copy from a staging buffer issued
\* before.
C3_CopyBeforeDraw ==
  (test \in {4, 5} /\ last.op = "glDrawElements") =>
    \A u \in 0..2 : last.units[u] # "0" => last.copies[u] >= 1

\* test_4's draw call with its three textures on their units, each after
\* its ten copies
C3_Witness ==
  /\ test = 4
  /\ last.op = "glDrawElements"
  /\ last.ok
  /\ last.units = [u \in 0..2 |-> <<"y_tex", "u_tex", "v_tex">>[u + 1]]
  /\ \A u \in 0..2 : last.copies[u] = 10

\* C4: mapping a buffer that is already mapped fails, and a pointer obtained
\* from a mapping is never written through once that mapping has been
\* released.
C4_NoStalePointer ==
  /\ (last.op = "glMapBuffer" /\ last.was_mapped) => ~last.mapped
  /\ BufferWrite => ~last.stale

\* C5: every texture copy from a staging buffer reads no more bytes than the
\* buffer was created with.
C5_CopyFitsBuffer ==
  CopyIssued => last.bytes <= last.capacity

\* C6: when the bytes read do not have the length width*height*3/2, nothing
\* is copied into the plane buffers or the textures.
C6_SizeMismatchRejected ==
  (rd.called /\ rd.size # rd.expected) =>
    /\ \A b \in Buffers : ~pbo[b].written
    /\ \A t \in Textures : tex[t].copies = 0

\* the bytes [off, off + len) of a region
Span(r) == r.off .. (r.off + r.len - 1)

\* C7: for even width and height, width*height + 2*(width/2)*(height/2) is
\* (3*size)/2, and the regions the split reads are pairwise disjoint and
\* cover [0, (3*size)/2) exactly.
C7_PlanarLayout ==
  frame.step # "none" =>
    LET w    == frame.w
        h    == frame.h
        size == w * h
        r    == PlaneRegion(size)
    IN  /\ w * h + 2 * (w \div 2) * (h \div 2) = (3 * size) \div 2
        /\ r.y = [off |-> 0, len |-> size]
        /\ r.u = [off |-> size, len |-> size \div 4]
        /\ r.v = [off |-> (5 * size) \div 4, len |-> size \div 4]
        /\ Span(r.y) \cap Span(r.u) = {}
        /\ Span(r.y) \cap Span(r.v) = {}
        /\ Span(r.u) \cap Span(r.v) = {}
        /\ Span(r.y) \cup Span(r.u) \cup Span(r.v) = 0 .. ((3 * size) \div 2 - 1)
        /\ frame.step # "loaded" =>
             frame.y_image \o frame.u_image \o frame.v_image = frame.image

\* a 4 x 2 frame split into planes of 8, 2 and 2 bytes
C7_Witness ==
  /\ frame.step = "split"
  /\ frame.w = 4 /\ frame.h = 2
  /\ Len(frame.y_image) = 8 /\ Len(frame.u_image) = 2 /\ Len(frame.v_image) = 2
  /\ frame.v_image = Bytes(frame.image, 10, 2)

\* C8: after the repacking, the channels the shader takes as Y, U and V at
\* pixel (row i, column c) are Y[i*w + c], U[(i/2)*(w/2) + c/2] and
\* V[(i/2)*(w/2) + c/2], and every sample of the three planes is in the block.
C8_RepackRoundTrip ==
  frame.step = "packed" =>
    LET w == frame.w
        h == frame.h
        yuv(i, c) == get_yuv_from_texture(frame.dummypayload, w, i, c)
    IN  /\ \A i \in 0..(h - 1), c \in 0..(w - 1) :
             /\ yuv(i, c).x = Read(frame.y_image, i * w + c)
             /\ yuv(i, c).y = Read(frame.u_image, (i \div 2) * (w \div 2) + c \div 2)
             /\ yuv(i, c).z = Read(frame.v_image, (i \div 2) * (w \div 2) + c \div 2)
             /\ yuv(i, c).x # -1 /\ yuv(i, c).y # -1 /\ yuv(i, c).z # -1
        /\ \A k \in 0..(Len(frame.y_image) - 1) :
             \E i \in 0..(h - 1), c \in 0..(w - 1) :
               i * w + c = k /\ yuv(i, c).x = Read(frame.y_image, k)
        /\ \A k \in 0..(Len(frame.u_image) - 1) :
             \E i \in 0..(h - 1), c \in 0..(w - 1) :
               /\ yuv(i, c).y = Read(frame.u_image, k)
               /\ yuv(i, c).z = Read(frame.v_image, k)

\* a 4 x 4 frame repacked: its last pixel carries the last sample of each
\* plane
C8_Witness ==
  /\ frame.step = "packed"
  /\ frame.w = 4 /\ frame.h = 4
  /\ get_yuv_from_texture(frame.dummypayload, 4, 3, 3) =
       [x |-> Read(frame.image, 15), y |-> Read(frame.image, 19),
        z |-> Read(frame.image, 23)]
  /\ Read(frame.image, 15) # Read(frame.image, 19)

\* the frame being presented: the texture on unit 0 (the Y plane, or the
\* block), whose width and height are the frame's
Presented == tex[bound2d[0]]

\* the ratio of the surface's aspect to the presented frame's
SurfaceToSource ==
  Rat(ctx.x_window_attr.height * Presented.w, ctx.x_window_attr.width * Presented.h)

\* source frame sizes: the two the tests use and a 4:3 one
SourceSizes == {<<1280, 720>>, <<1920, 1080>>, <<640, 480>>}

\* the aspect-ratio policy for the surface-to-source ratio r
Policy(r) ==
  /\ RLess(One, r) => (ctx.transform[1] = One /\ ctx.transform[6] = RInv(r))
  /\ r = One => (ctx.transform[1] = One /\ ctx.transform[6] = One)

C10_AsStated ==
  last.op = "computeTransform" =>
    LET r == SurfaceToSource
    IN  /\ RLess(r, One) => (RLess(last.dy, One) /\ last.dx = One)
        /\ RLess(One, r) => (RLess(last.dx, One) /\ last.dy = One)
        /\ r = One => (last.dx = One /\ last.dy = One)

\* C10 amended: r < 1 reduces the horizontal scale to r and leaves the
\* vertical one at 1, r > 1 reduces the vertical scale to 1/r and leaves the
\* horizontal one at 1, r = 1 changes nothing.
C10_Direction ==
  last.op = "computeTransform" =>
    LET r == SurfaceToSource
    IN  /\ RLess(r, One) => (last.dx = r /\ RLess(last.dx, One) /\ last.dy = One)
        /\ RLess(One, r) => (last.dy = RInv(r) /\ RLess(last.dy, One) /\ last.dx = One)
        /\ r = One => (last.dx = One /\ last.dy = One)

\* a surface wider than the frame (3 x 1, r = 16/27): the
\* horizontal scale is reduced
C10_Witness ==
  /\ last.op = "computeTransform"
  /\ ctx.x_window_attr = [width |-> 3, height |-> 1]
  /\ last.dx = <<16, 27>>
  /\ last.dy = One

\* the places of a step in the steps of a call of a render function
Places(step) == {k \in DOMAIN render.steps : render.steps[k] = step}

\* every step a comes before every step b
Before(a, b) == \A i \in Places(a), j \in Places(b) : i < j

\* a call of a render function has made its last step
RenderDone == render.n > 0 /\ ~render.active /\ last.op = "glXSwapBuffers"

\* C11: a call of a render function makes the surface current, sets the
\* viewport to the surface's size, clears, activates the shader, binds the
\* textures, uploads the transform, draws and last swaps the buffers, in this
\* order; it swaps exactly when the context is double buffered, and the draw
\* comes after every texture binding and after the transform upload.
C11_RenderOrder ==
  /\ render.active =>
       /\ render.steps[1] = "glXMakeCurrent"
       /\ Before("glXMakeCurrent", "glViewport")
       /\ Before("glViewport", "glClear")
       /\ Before("glClear", "glUseProgram")
       /\ Before("glUseProgram", "glBindTexture")
       /\ Before("glBindTexture", "glUniformMatrix4fv")
       /\ Before("glUniformMatrix4fv", "glDrawElements")
       /\ Before("glBindTexture", "glDrawElements")
       /\ Places("glXSwapBuffers") = {}
       /\ last.op = "glViewport" => fb.viewport = ctx.x_window_attr
       /\ last.op = "glDrawElements" =>
            /\ Places("glUniformMatrix4fv") # {}
            /\ Cardinality(Places("glBindTexture")) =
                 IF shader.kind = "YUVShader" THEN 3 ELSE 1
  /\ RenderDone =>
       /\ \A step \in {"glXMakeCurrent", "glViewport", "glClear", "glUseProgram",
                       "glUniformMatrix4fv", "glDrawElements"} :
            Cardinality(Places(step)) = 1
       /\ Before("glUniformMatrix4fv", "glDrawElements")
       /\ Before("glBindTexture", "glDrawElements")
       /\ Before("glDrawElements", "glXSwapBuffers")
       /\ (Places("glXSwapBuffers") # {}) <=> ctx.doublebuffer_flag
       /\ Places("glXSwapBuffers") \subseteq {Len(render.steps)}
       /\ last.swapped <=> ctx.doublebuffer_flag

\* test_4's call of renderYUVShader, done, in a double buffered context: the
\* swap is its last step and the front buffer shows what was drawn
C11_Witness ==
  /\ test = 4
  /\ RenderDone
  /\ ctx.doublebuffer_flag
  /\ render.steps[Len(render.steps)] = "glXSwapBuffers"
  /\ render.steps[Len(render.steps) - 2] = "glDrawElements"
  /\ fb.swaps = 1
  /\ fb.front.drawn

\* C12: when glXMakeCurrent fails at the start of a call of a render function,
\* the call makes no further step: no viewport change, clear, texture binding,
\* draw or swap.
C12_FrameSkipped ==
  (render.n > 0 /\ ~render.ok) =>
    /\ render.steps = <<"glXMakeCurrent">>
    /\ fb.draws = 0
    /\ fb.swaps = 0

\* C13: two calls of a render function in succession, with the same window
\* size read in both, issue the same draw (textures on the units, their
\* images, sampler values, transform), and a call leaves every texture and
\* every buffer, with its mapping and the unpack binding, as it found them.
C13_RenderIdempotent ==
  /\ (Len(render.draws) = 2 /\ render.sizes[1] = render.sizes[2]) =>
       render.draws[1] = render.draws[2]
  /\ render.n > 0 =>
       /\ tex = render.before.tex
       /\ pbo = render.before.pbo
       /\ unpack = render.before.unpack

\* test_4's frame drawn twice in a 600 x 600 window: both draws made, with
\* the three planes and the vertical scale 9/16
C13_Witness ==
  /\ test = 14
  /\ Len(render.draws) = 2
  /\ render.sizes = << <<600, 600>>, <<600, 600>> >>
  /\ render.draws[2].drawn
  /\ render.draws[2].units = [u \in 0..2 |-> <<"y_tex", "u_tex", "v_tex">>[u + 1]]
  /\ render.draws[2].images[0].src = "file"
  /\ render.draws[2].transform[6] = <<9, 16>>

\* the calls that use the shader program, or go on with the pipeline
PipelineSteps ==
  {"glUseProgram", "findVars", "reserve", "glUniform1i", "glUniformMatrix4fv",
   "glGenBuffers", "glBufferData", "glMapBuffer", "glTexImage2D",
   "glTexSubImage2D", "glDrawElements", "glXSwapBuffers"}

\* C14: after a failed vertex compile, fragment compile or link, no later
\* step (program use, location lookup, geometry reservation, upload, draw) is
\* made.
C14_CompileFailureFatal ==
  shader.reported # {} => last.op \notin PipelineSteps

\* the calls that create, map or use a pixel buffer object
BufferSteps ==
  {"glGenBuffers", "glBindBuffer", "glBufferData", "glMapBuffer", "glUnmapBuffer",
   "glTexSubImage2D"}

\* C15: when glewInit failed or the pixel buffer object extension is not
\* present after it, no buffer is created, mapped or used (a call that
\* faults on an entry point that was not loaded creates nothing).
C15_MissingExtensionFatal ==
  (glew.init # "none" /\ ~glew.pbo_ext) =>
    /\ (last.op \in BufferSteps) => ("null_entry" \in DOMAIN last)
    /\ \A b \in Buffers : ~pbo[b].gen

\* C16: the constructor does not go on to use a display, a framebuffer
\* configuration list or a context that it did not get: it dereferences
\* nothing absent, and the test runs on only with all three.
C16_ContextFailureAborts ==
  /\ last.op = "OpenGLContext" => last.dereferenced = {}
  /\ (last.op = "OpenGLContext" /\ status = "running") =>
       (last.display_id = "ok" /\ last.fbConfigs = "ok" /\ last.glc = "ok")
  /\ status = "crashed" => last.op # "OpenGLContext"

\* C17: after a successful link every uniform the host code looks up has a
\* location, and a location of -1 is never passed to a uniform upload.
C17_UniformsResolved ==
  /\ (last.op = "findVars" /\ shader.program = "linked") =>
       \A i \in DOMAIN Uniforms(shader.kind) : shader.loc[Uniforms(shader.kind)[i]] # -1
  /\ last.op \in {"glUniform1i", "glUniformMatrix4fv"} => last.loc # -1

\* C18: two consecutive copies into a texture never take the same buffer as
\* their source.
C18_DoubleBuffered ==
  (CopyIssued /\ last.tex # "0" /\ last.previous # "0") => last.previous # last.buf

\* the buffer, texture, texture unit and sampler of each plane in test_4
PlaneOf ==
  [y |-> [pbo |-> "y_pbo", tex |-> "y_tex", unit |-> 0, sampler |-> "texy", div |-> 1],
   u |-> [pbo |-> "u_pbo", tex |-> "u_tex", unit |-> 1, sampler |-> "texu", div |-> 2],
   v |-> [pbo |-> "v_pbo", tex |-> "v_tex", unit |-> 2, sampler |-> "texv", div |-> 2]]

\* C19: in test_4, what is written into a plane's buffer is that plane's
\* region of the raw frame; the plane's buffer is the source of copies into
\* the plane's texture only, with the plane's dimensions; and at the draw the
\* plane's texture is on the unit its sampler is set to.
C19_PlanesNeverCross ==
  test = 4 =>
    LET w == 1280
        h == 720
        region == PlaneRegion(w * h)
    IN  \A p \in {"y", "u", "v"} :
          /\ pbo[PlaneOf[p].pbo].store.src # "none" =>
               /\ pbo[PlaneOf[p].pbo].store.src = "file"
               /\ pbo[PlaneOf[p].pbo].store.off = region[p].off
               /\ pbo[PlaneOf[p].pbo].store.len <= region[p].len
          /\ CopyIssued =>
               /\ (last.buf = PlaneOf[p].pbo) <=> (last.tex = PlaneOf[p].tex)
               /\ last.buf = PlaneOf[p].pbo =>
                    /\ last.w = w \div PlaneOf[p].div
                    /\ last.h = h \div PlaneOf[p].div
          /\ (last.op = "glDrawElements" /\ last.ok) =>
               /\ last.units[PlaneOf[p].unit] = PlaneOf[p].tex
               /\ shader.value[PlaneOf[p].sampler] = PlaneOf[p].unit
               /\ fb[DrawBuffer].units[shader.value[PlaneOf[p].sampler]] = PlaneOf[p].tex

\* test_4's draw, made, with each plane's region in its texture
C19_Witness ==
  /\ test = 4
  /\ last.op = "glDrawElements"
  /\ last.ok
  /\ \A p \in {"y", "u", "v"} :
       /\ tex[PlaneOf[p].tex].image =
            [src |-> "file", off |-> PlaneRegion(1280 * 720)[p].off,
             len |-> PlaneRegion(1280 * 720)[p].len]
       /\ fb[DrawBuffer].images[PlaneOf[p].unit] = tex[PlaneOf[p].tex].image

\* a copy has been issued: the upload loop has begun
Uploading == \E t \in Textures : tex[t].copies > 0

\* C20: once the upload loop has begun, no buffer is created or given a new
\* store and no texture is created or given new storage; every copy into a
\* texture takes the buffer the copy before took; and every copy has the
\* format, type and dimensions the texture was created with.
C20_OnlyContentsReplaced ==
  /\ Uploading =>
       last.op \notin {"glGenBuffers", "glBufferData", "glGenTextures", "glTexImage2D"}
  /\ (CopyIssued /\ last.tex # "0") =>
       /\ last.previous \in {"0", last.buf}
       /\ last.w = tex[last.tex].w
       /\ last.h = tex[last.tex].h
       /\ last.format = tex[last.tex].format
       /\ last.type = tex[last.tex].type

\* the tenth copy of test_5, from the same buffer as the ninth
C20_Witness ==
  /\ test = 5
  /\ CopyIssued
  /\ last.ok
  /\ last.tex = "tex"
  /\ last.previous = "pbo"
  /\ tex["tex"].copies = 10
  /\ tex["tex"].format = "GL_BGRA"

(***************************************************************************)
(* The calls that reach the GPU through the rendering context: shader      *)
(* compile and use, uniforms, buffer and texture creation, binding,        *)
(* mapping, the texture copy, the geometry upload of reserve, the draw.    *)
(***************************************************************************)
GPUCalls ==
  {"compile", "glUseProgram", "findVars", "glUniform1i", "glUniformMatrix4fv",
   "glGenBuffers", "glBindBuffer", "glBufferData", "glMapBuffer", "glUnmapBuffer",
   "glGenTextures", "glActiveTexture", "glBindTexture", "glTexImage2D",
   "glTexSubImage2D", "reserve", "glBindVertexArray", "glDrawElements",
   "glViewport", "glClear"}

\* C21: no GPU call is issued before the context has been made current: at
\* every GPU call glXMakeCurrent has been called on the test's window, and
\* every GPU call that is executed finds a drawable current; at glewInit
\* glXMakeCurrent has been called on the root window, and glewInit succeeds
\* only with a drawable current.
C21_ContextBeforeGPU ==
  /\ last.op \in GPUCalls =>
       /\ "win" \in ctx.asked
       /\ "null_entry" \notin DOMAIN last => ctx.current # "none"
  /\ last.op = "glewInit" =>
       /\ "root_id" \in ctx.asked
       /\ "win" \notin ctx.asked
       /\ glew.init = "ok" => ctx.current = "root_id"

\* the first GPU call of test_4 or test_5 (the shader's compile) made with the
\* window current, and a draw made with it current
C21_Witness ==
  /\ test \in {4, 5}
  /\ last.op = "glDrawElements"
  /\ last.ok
  /\ ctx.current = "win"
  /\ ctx.asked = {"root_id", "win"}
  /\ glew.init = "ok"

\* getPBO has returned: its last call, the glBindBuffer(.., 0) that follows the
\* mapping, has been made
GetPBOReturned ==
  /\ test \in {4, 5}
  /\ status = "running"
  /\ pc > 3
  /\ Prog[pc - 1] = [op |-> "glBindBuffer", buf |-> "0"]
  /\ "glMapBuffer" \in {Prog[pc - 2].op, Prog[pc - 3].op}

\* the buffer of the getPBO call made last: the index of its glGenBuffers
GetPBOIndex ==
  LET gens == {k \in 1..(pc - 1) : Prog[k].op = "glGenBuffers"}
  IN  Prog[CHOOSE k \in gens : \A j \in gens : j <= k].buf

\* an iteration of the upload loop of test_4 or test_5 has ended: the next
\* call is the first of the next iteration, or the first of the render call
IterationEnd ==
  /\ test \in {4, 5}
  /\ status = "running"
  /\ pc <= Len(Prog)
  /\ Uploading
  /\ \/ Cur.op = "glBindBuffer" /\ Cur.buf \in {"y_pbo", "pbo"}
     \/ Cur.op = "glXMakeCurrent" /\ Cur.checked /\ render.n = 0

\* C22: getPBO returns with its buffer unmapped and no buffer bound as
\* pixel-unpack source; every upload iteration of test_4 and test_5 ends
\* with no pixel-unpack buffer and no 2D texture bound; and every draw call
\* is entered with no buffer bound as pixel-unpack source.
C22_BindingHygiene ==
  /\ GetPBOReturned => ~pbo[GetPBOIndex].mapped /\ unpack = "0"
  /\ IterationEnd => unpack = "0" /\ \A u \in 0..2 : bound2d[u] = "0"
  /\ last.op = "glDrawElements" => last.unpack = "0"

\* the last iteration of test_4's loop has ended, after three getPBO whose
\* mappings were made and released
C22_Witness ==
  /\ test = 4
  /\ IterationEnd
  /\ Cur.op = "glXMakeCurrent"
  /\ \A t \in {"y_tex", "u_tex", "v_tex"} : tex[t].copies = 10 /\ tex[t].source # "0"
  /\ \A b \in {"y_pbo", "u_pbo", "v_pbo"} : pbo[b].gen /\ pbo[b].size > 0
  /\ released = {"y_payload", "u_payload", "v_payload"}
  /\ unpack = "0"

\* the pixels the repacking loop has written so far
PixelsWritten == frame.i * frame.w + frame.j \div 4

\* C23: for even w and h every index the repacking loop uses is in bounds:
\* at each pass, for row i < h and byte column j < 4*w (a multiple of 4),
\* the y index is below w*h, the u and v index below (w*h)/4, the last
\* index written below 4*w*h, these being the sizes of the arrays; and the
\* fourth byte of every pixel written is 255.
C23_RepackInBounds ==
  frame.step \in {"split", "packed"} =>
    LET i == frame.i
        j == frame.j
        w == frame.w
        h == frame.h
    IN  /\ w % 2 = 0 /\ h % 2 = 0
        /\ Len(frame.y_image) = w * h
        /\ Len(frame.u_image) = (w * h) \div 4
        /\ Len(frame.v_image) = (w * h) \div 4
        /\ Len(frame.dummypayload) = 4 * w * h
        /\ (frame.step = "split" /\ i < h) =>
             /\ j % 4 = 0 /\ j >= 0 /\ j < 4 * w
             /\ YIndex(i, j, w) >= 0 /\ YIndex(i, j, w) < w * h
             /\ UVIndex(i, j, w) >= 0 /\ UVIndex(i, j, w) < (w * h) \div 4
             /\ i * (4 * w) + j >= 0 /\ i * (4 * w) + j + 3 < 4 * w * h
        /\ \A k \in 0..(PixelsWritten - 1) : Read(frame.dummypayload, 4 * k + 3) = 255

\* the last pass of the loop for a 4 x 2 frame: every index at its largest
C23_Witness ==
  /\ frame.step = "split"
  /\ frame.w = 4 /\ frame.h = 2
  /\ frame.i = frame.h - 1
  /\ frame.j = 4 * frame.w - 4
  /\ YIndex(frame.i, frame.j, frame.w) = frame.w * frame.h - 1
  /\ UVIndex(frame.i, frame.j, frame.w) = (frame.w * frame.h) \div 4 - 1
  /\ PixelsWritten = frame.w * frame.h - 1
  /\ Read(frame.dummypayload, 4 * (PixelsWritten - 1) + 3) = 255

\* C24: once reserve has run, and after any render calls with any window
\* sizes, the stored transform is the identity in every element but 0 and 5
\* (1 and 6 here), both of these are in (0, 1], and one of them is 1.
C24_TransformShape ==
  ctx.VAO = "reserved" =>
    /\ \A i \in (1..16) \ {1, 6} : ctx.transform[i] = Identity[i]
    /\ \A i \in {1, 6} : /\ RLess(Zero, ctx.transform[i])
                         /\ ~RLess(One, ctx.transform[i])
    /\ One \in {ctx.transform[1], ctx.transform[6]}

\* the second of two render calls, the first for a window taller than the
\* image (vertical scale 3/16), the second for one wider (horizontal 16/27)
C24_Witness ==
  /\ ctx.VAO = "reserved"
  /\ render.n = 2
  /\ render.sizes = << <<1, 3>>, <<3, 1>> >>
  /\ last.op = "computeTransform"
  /\ ctx.transform[1] = <<16, 27>>
  /\ ctx.transform[6] = One

====
